---- MODULE Spec2Model ----
(***************************************************************************)
(* s2j: stored-procedure units are converted by an external LLM service,   *)
(* in dependency order, with a file cache in front of the service          *)
(* (src/ai.py) and a progress file rewritten after every unit             *)
(* (src/main.py).                                                          *)
(*                                                                         *)
(* Texts are sequences of characters; a character is a one-element string  *)
(* or a lexeme standing for a run of characters without line breaks.       *)
(* None is <<>> and a present value v is <<v>> wherever Python has an      *)
(* Optional.                                                               *)
(***************************************************************************)
EXTENDS Integers, Sequences, FiniteSets, TLC

\* ------------------------------------------------------------------------
\* Bounds of the model.
MaxAsks == 2

\* ------------------------------------------------------------------------
\* Text files: open(path, 'w') / open(path, 'r') with the default newline=None.
CR == "\r"
LF == "\n"

RECURSIVE ReadText(_)
\* f.read() in text mode: universal newlines, "\r\n" and "\r" are read as "\n".
ReadText(data) ==
    IF data = <<>> THEN <<>>
    ELSE IF Head(data) = CR
         THEN IF Len(data) >= 2 /\ data[2] = LF
              THEN <<LF>> \o ReadText(SubSeq(data, 3, Len(data)))
              ELSE <<LF>> \o ReadText(Tail(data))
         ELSE <<Head(data)>> \o ReadText(Tail(data))

\* f.write(s) in text mode on POSIX: "\n" is written as os.linesep = "\n".
WriteText(s) == s

\* ------------------------------------------------------------------------
\* Requests of LLM.ask. A turn of chat_history is a bare string or a dict whose
\* fields are kept in the order they were inserted.
StrMsg(text) == [isStr |-> TRUE, fields |-> << <<"content", text>> >>]
DictMsg(fields) == [isStr |-> FALSE, fields |-> fields]

\* The arguments of ask that make the cache key.
Request(chat_history, model, max_tokens, json_mode) ==
    [chat_history |-> chat_history, model |-> model, max_tokens |-> max_tokens,
     json_mode |-> json_mode]

DefaultModel == "gpt-4o"
DefaultMaxTokens == 16 * 1024
DefaultCacheDir == ".cached"

\* ask, lines 50-55: the history sent to the service.
History(chat_history) ==
    [i \in 1..Len(chat_history) |->
        IF chat_history[i].isStr
        THEN DictMsg(<< <<"role", <<"user">> >>, chat_history[i].fields[1] >>)
        ELSE chat_history[i]]

\* Order of dict keys under sort_keys=True (code point order of the key strings).
KeyRank(k) ==
    CASE k = "chat_history" -> 1
      [] k = "content" -> 2
      [] k = "json_mode" -> 3
      [] k = "max_tokens" -> 4
      [] k = "model" -> 5
      [] k = "role" -> 6
      [] OTHER -> 7

RECURSIVE InsertSorted(_, _)
InsertSorted(item, sorted) ==
    IF sorted = <<>> THEN <<item>>
    ELSE IF KeyRank(item[1]) <= KeyRank(Head(sorted)[1])
         THEN <<item>> \o sorted
         ELSE <<Head(sorted)>> \o InsertSorted(item, Tail(sorted))

RECURSIVE SortKeys(_)
SortKeys(fields) ==
    IF fields = <<>> THEN <<>> ELSE InsertSorted(Head(fields), SortKeys(Tail(fields)))

InsertionOrder(fields) == fields

\* The order in which json.dumps(..., sort_keys=True) emits the items of a dict.
DumpOrder(fields) == SortKeys(fields)

RECURSIVE DumpItems(_)
DumpItems(fields) ==
    IF fields = <<>> THEN <<>>
    ELSE <<"\"", Head(fields)[1], "\"", ":">> \o Head(fields)[2]
         \o (IF Len(fields) > 1 THEN <<",">> ELSE <<>>) \o DumpItems(Tail(fields))

DumpString(text) == <<"\"">> \o text \o <<"\"">>

DumpDict(fields) ==
    <<"{">> \o DumpItems(DumpOrder([i \in 1..Len(fields) |->
                 <<fields[i][1], DumpString(fields[i][2])>>])) \o <<"}">>

DumpMsg(msg) == IF msg.isStr THEN DumpString(msg.fields[1][2]) ELSE DumpDict(msg.fields)

RECURSIVE DumpList(_)
DumpList(msgs) ==
    IF msgs = <<>> THEN <<>>
    ELSE DumpMsg(Head(msgs)) \o (IF Len(msgs) > 1 THEN <<",">> ELSE <<>>)
         \o DumpList(Tail(msgs))

\* json.dumps({"chat_history":..., "model":..., "max_tokens":..., "json_mode":...},
\*            sort_keys=True)
JsonDumpsKeyData(chat_history, model, max_tokens, json_mode) ==
    <<"{">> \o DumpItems(DumpOrder(<<
        <<"chat_history", <<"[">> \o DumpList(chat_history) \o <<"]">> >>,
        <<"model", DumpString(<<model>>)>>,
        <<"max_tokens", <<ToString(max_tokens)>> >>,
        <<"json_mode", <<IF json_mode THEN "true" ELSE "false">> >> >>)) \o <<"}">>

\* hashlib.md5(key_data).hexdigest(): taken as injective (no collisions) on the
\* key data of the model, so the digest is represented by the data it digests.
Md5HexDigest(key_data) == key_data

GenerateCacheKey(chat_history, model, max_tokens, json_mode) ==
    Md5HexDigest(JsonDumpsKeyData(chat_history, model, max_tokens, json_mode))

\* ------------------------------------------------------------------------
\* The cache store: the files <cache_dir>/<cache_key>.cache, each with the
\* characters on disk.
CacheFiles(cache, key, cache_dir) == {f \in cache : f.dir = cache_dir /\ f.key = key}

\* _load_from_cache: the text read from the file, None when there is no file.
LoadFromCache(cache, key, cache_dir) ==
    IF CacheFiles(cache, key, cache_dir) = {} THEN <<>>
    ELSE <<ReadText((CHOOSE f \in CacheFiles(cache, key, cache_dir) : TRUE).data)>>

PutFile(cache, key, cache_dir, data) ==
    (cache \ CacheFiles(cache, key, cache_dir))
        \cup {[dir |-> cache_dir, key |-> key, data |-> data]}

\* _save_to_cache: open(cache_file, 'w') truncates the file, f.write(response)
\* raises TypeError when response is None and leaves the file empty.
SaveToCache(cache, key, response, cache_dir) ==
    IF response = <<>>
    THEN [cache |-> PutFile(cache, key, cache_dir, <<>>), raised |-> TRUE]
    ELSE [cache |-> PutFile(cache, key, cache_dir, WriteText(response[1])),
          raised |-> FALSE]

\* Python truth value of an Optional[str]: None and "" are false.
Truthy(opt) == opt # <<>> /\ Len(opt[1]) > 0

\* `if cached_response:` (ask, line 63)
CacheHit(cached_response) == Truthy(cached_response)

\* What client.chat.completions.create and `.choices[0].message.content` give:
\* an exception, or a content that is a text or None.
SvcRaise == [kind |-> "raise", content |-> <<>>]
SvcContent(opt) == [kind |-> "content", content |-> opt]
Outcomes(texts) == {SvcRaise, SvcContent(<<>>)} \cup {SvcContent(<<t>>) : t \in texts}

\* LLM.ask(chat_history, model, max_tokens, json_mode, cached_mode, cache_dir)
\* against the service outcome `svc` (used only when the service is invoked).
\* raised: an exception leaves ask; content: the "content" of the dict returned;
\* invoked: client.chat.completions.create was called.
Ask(cache, req, cached_mode, cache_dir, svc) ==
    LET cache_key == GenerateCacheKey(req.chat_history, req.model, req.max_tokens,
                                      req.json_mode)
        cached_response == IF cached_mode
                           THEN LoadFromCache(cache, cache_key, cache_dir) ELSE <<>>
        saved == SaveToCache(cache, cache_key, svc.content, cache_dir)
    IN  IF cached_mode /\ CacheHit(cached_response)
        THEN [cache |-> cache, raised |-> FALSE, content |-> cached_response,
              invoked |-> FALSE, key |-> cache_key]
        ELSE IF svc.kind = "raise"
        THEN [cache |-> cache, raised |-> TRUE, content |-> <<>>,
              invoked |-> TRUE, key |-> cache_key]
        ELSE IF cached_mode
        THEN [cache |-> saved.cache, raised |-> saved.raised,
              content |-> IF saved.raised THEN <<>> ELSE svc.content,
              invoked |-> TRUE, key |-> cache_key]
        ELSE [cache |-> cache, raised |-> FALSE, content |-> svc.content,
              invoked |-> TRUE, key |-> cache_key]

\* ------------------------------------------------------------------------
\* Structured responses. A response text is made of lexemes: the braces of the
\* JSON object, whole members of it, line breaks between them, or other text.
IsWhitespace(ch) == ch \in {CR, LF}

\* json.loads(json_content): ok when the text is one JSON object; members are the
\* lexemes between its braces. Line breaks between members are JSON whitespace.
JsonLoads(text) ==
    LET body == SelectSeq(text, LAMBDA ch : ~IsWhitespace(ch))
    IN  IF /\ Len(body) >= 2
           /\ body[1] = "{"
           /\ body[Len(body)] = "}"
           /\ \A i \in 2..(Len(body) - 1) : body[i] \notin {"{", "}", "x"}
        THEN [ok |-> TRUE, members |-> SubSeq(body, 2, Len(body) - 1)]
        ELSE [ok |-> FALSE, members |-> <<>>]

HasKey(obj, key) == \E i \in 1..Len(obj.members) : obj.members[i] = key

\* The members of a "symbols" list: {"oracle": o, "java": j}, or an entry
\* without its "java" field.
SymbolEntries ==
    [e1 |-> [oracle |-> "PKG_A.f()", java |-> "A.f()", hasJava |-> TRUE],
     e2 |-> [oracle |-> "PKG_B.g()", java |-> "B.g()", hasJava |-> TRUE],
     eNoJava |-> [oracle |-> "PKG_B.h()", java |-> "", hasJava |-> FALSE]]

IsSymbolEntry(ch) == ch \in DOMAIN SymbolEntries

\* The members of the "package_name" and "deps" lists of an extraction response.
PackageNames ==
    [pkgA |-> <<"PKG_A">>, pkgB |-> <<"PKG_B">>, pkgX |-> <<"PKG_X">>]

DepNames ==
    [depA |-> <<"PKG_A", ".", "foo">>, depB |-> <<"PKG_B", ".", "bar">>,
     depX |-> <<"PKG_X", ".", "baz">>]

\* ------------------------------------------------------------------------
\* The working directory: its files in the order os.walk finds them, those of
\* the directory itself (dir "") before those of its subdirectories.
SqlPath(dir, base) == [dir |-> dir, base |-> base]

\* file.endswith('.sql')
EndsWithSql(base) == base \in {"a.sql", "b.sql", "c.sql"}

\* scan_sql_files(directory)
ScanSqlFiles(directory) == SelectSeq(directory, LAMBDA path : EndsWithSql(path.base))

\* os.path.basename(sql_file)
Basename(path) == path.base

\* os.path.join(self.working_dir, filename)
JoinWorkingDir(filename) == SqlPath("", filename)

\* open(path, 'r') finds a file.
FileExists(directory, path) == \E i \in 1..Len(directory) : directory[i] = path

\* The working directories of the model: three units side by side next to a
\* file that is no unit, two units and a third in a subdirectory with the name
\* of the first, and a unit next to one in a subdirectory.
WorkingDirs ==
    {<<SqlPath("", "a.sql"), SqlPath("", "b.sql"), SqlPath("", "c.sql"),
       SqlPath("", "notes.txt")>>,
     <<SqlPath("", "a.sql"), SqlPath("", "b.sql"), SqlPath("sub", "a.sql")>>,
     <<SqlPath("", "a.sql"), SqlPath("sub", "b.sql")>>}

\* f.read() of a unit: each file has its own text.
ReadCode(path) == <<"PROCEDURES OF ", path.dir, "/", path.base>>

SystemMsg(content) == DictMsg(<< <<"role", <<"system">> >>, <<"content", content>> >>)

\* SYSTEM_PROMPT_PARSE_REFS % code
PromptParseRefs(code) == <<"PARSE_REFS <code>">> \o code \o <<"</code>">>

RECURSIVE Join(_, _)
\* sep.join(strings)
Join(strings, sep) ==
    IF strings = <<>> THEN <<>>
    ELSE IF Len(strings) = 1 THEN strings[1]
    ELSE strings[1] \o <<sep>> \o Join(Tail(strings), sep)

\* SYSTEM_PROMPT_PROCESS_FILE % (str_symbols, code); symbol_order is the order in
\* which the set predefined_symbols is iterated by "\n".join.
PromptProcessFile(symbol_order, code) ==
    <<"PROCESS_FILE <predefined_symbols>">> \o Join(symbol_order, LF)
        \o <<"</predefined_symbols><stored_procedure>">> \o code
        \o <<"</stored_procedure>">>

\* llm.ask([{"role": "system", "content": prompt}], json_mode=True, cached_mode=True)
AskJson(cache, prompt, svc) ==
    Ask(cache, Request(<<SystemMsg(prompt)>>, DefaultModel, DefaultMaxTokens, TRUE),
        TRUE, DefaultCacheDir, svc)

\* parse_refs(code): refs.get("package_name", []) and refs.get("deps", []) of the
\* parsed response, or an exception of ask or of json.loads.
ParseRefs(cache, code, svc) ==
    LET resp == AskJson(cache, PromptParseRefs(code), svc)
        obj == JsonLoads(resp.content[1])
    IN  IF resp.raised \/ resp.content = <<>>
        THEN [cache |-> resp.cache, raised |-> TRUE, invoked |-> resp.invoked,
              package_name |-> <<>>, deps |-> <<>>]
        ELSE [cache |-> resp.cache, raised |-> ~obj.ok, invoked |-> resp.invoked,
              package_name |->
                  LET l == SelectSeq(obj.members, LAMBDA ch : ch \in DOMAIN PackageNames)
                  IN  [i \in 1..Len(l) |-> PackageNames[l[i]]],
              deps |->
                  LET l == SelectSeq(obj.members, LAMBDA ch : ch \in DOMAIN DepNames)
                  IN  [i \in 1..Len(l) |-> DepNames[l[i]]]]

\* generate_java_code(code, predefined_symbols): obj["symbols"] of the parsed
\* response, or an exception of ask, of json.loads or of a missing key.
GenerateJavaCode(cache, code, symbol_order, svc) ==
    LET resp == AskJson(cache, PromptProcessFile(symbol_order, code), svc)
        obj == JsonLoads(resp.content[1])
    IN  IF resp.raised \/ resp.content = <<>>
        THEN [cache |-> resp.cache, raised |-> TRUE, invoked |-> resp.invoked,
              symbols |-> <<>>]
        ELSE [cache |-> resp.cache,
              raised |-> ~(obj.ok /\ HasKey(obj, "java_code") /\ HasKey(obj, "symbols")),
              invoked |-> resp.invoked,
              symbols |-> SelectSeq(obj.members, IsSymbolEntry)]

\* ------------------------------------------------------------------------
\* Python collections. A dict is the sequence of its [key, value] items in
\* insertion order; list(a_set) may come out in any order.
Range(seq) == {seq[i] : i \in 1..Len(seq)}

Orderings(set) ==
    {order \in [1..Cardinality(set) -> set] : Range(order) = set}

HasItem(dict, key) == \E i \in 1..Len(dict) : dict[i].key = key

\* dict.get(key, default)
DictGet(dict, key, default) ==
    IF HasItem(dict, key)
    THEN dict[CHOOSE i \in 1..Len(dict) : dict[i].key = key].value
    ELSE default

\* dict[key] = value: a new key goes last, a known key keeps its place.
DictSet(dict, key, value) ==
    IF HasItem(dict, key)
    THEN [i \in 1..Len(dict) |->
            IF dict[i].key = key THEN [key |-> key, value |-> value] ELSE dict[i]]
    ELSE Append(dict, [key |-> key, value |-> value])

\* ------------------------------------------------------------------------
\* Processor.build_callgraph.
\* dep.split('.')[0]
RECURSIVE SplitDotHead(_)
SplitDotHead(dep) ==
    IF dep = <<>> \/ Head(dep) = "." THEN <<>>
    ELSE <<Head(dep)>> \o SplitDotHead(Tail(dep))

RECURSIVE FirstWriteWins(_)
FirstWriteWins(file_refs) ==
    IF file_refs = <<>> THEN <<>>
    ELSE LET first == file_refs[1]
             names == first.value.package_name
             after == FirstWriteWins(Tail(file_refs))
             Put[i \in 0..Len(names)] ==
                 IF i = 0 THEN after
                 ELSE DictSet(Put[i - 1], names[i], Basename(first.key))
         IN  Put[Len(names)]

RECURSIVE PackageToFile(_)
\* Lines 99-103: package_2_file, every declaration overwriting an earlier one.
PackageToFile(file_refs) ==
    IF file_refs = <<>> THEN <<>>
    ELSE LET last == file_refs[Len(file_refs)]
             names == last.value.package_name
             before == PackageToFile(SubSeq(file_refs, 1, Len(file_refs) - 1))
             Put[i \in 0..Len(names)] ==
                 IF i = 0 THEN before
                 ELSE DictSet(Put[i - 1], names[i], Basename(last.key))
         IN  Put[Len(names)]

SelfKept(package_2_file, filename, dependencies) ==
    {DictGet(package_2_file, SplitDotHead(dependencies[i]), filename) :
        i \in {j \in 1..Len(dependencies) :
                 HasItem(package_2_file, SplitDotHead(dependencies[j]))}}

\* Lines 109-115: dependent_files of one file.
DependentFiles(package_2_file, filename, dependencies) ==
    {DictGet(package_2_file, SplitDotHead(dependencies[i]), filename) :
        i \in {j \in 1..Len(dependencies) :
                 HasItem(package_2_file, SplitDotHead(dependencies[j]))}}
    \ {filename}

RECURSIVE DepSets(_, _)
\* Lines 106-116: file_dep_graph with the dependencies of a file still a set.
DepSets(file_refs, package_2_file) ==
    IF file_refs = <<>> THEN <<>>
    ELSE LET last == file_refs[Len(file_refs)]
             filename == Basename(last.key)
         IN  DictSet(DepSets(SubSeq(file_refs, 1, Len(file_refs) - 1), package_2_file),
                     filename,
                     DependentFiles(package_2_file, filename, last.value.deps))

\* Lines 118-120: the graphs that list(deps) can give.
BuildCallgraphs(file_refs) ==
    LET sets == DepSets(file_refs, PackageToFile(file_refs))
    IN  {g \in [1..Len(sets) -> [key : {sets[i].key : i \in 1..Len(sets)},
                                 value : UNION {Orderings(sets[i].value) :
                                                   i \in 1..Len(sets)}]] :
            \A i \in 1..Len(sets) :
                /\ g[i].key = sets[i].key
                /\ g[i].value \in Orderings(sets[i].value)}

\* ------------------------------------------------------------------------
\* The progress file <working_dir>/.progress.json: None when there is no file,
\* else its content.
RECURSIVE ListOfSet(_)
\* list(a_set), for a list that is only read back with set(a_list).
ListOfSet(set) ==
    IF set = {} THEN <<>>
    ELSE LET x == CHOOSE x \in set : TRUE IN <<x>> \o ListOfSet(set \ {x})

\* open(progress_file, 'w'), before f.write(data): the file is empty.
TruncatedFile ==
    [truncated |-> TRUE, processed_files |-> <<>>, symbols |-> <<>>,
     file_dep_graph |-> <<>>]

\* save_progress, lines 136-141: what f.write(data) puts in the file.
ProgressData(processed_files, symbols, file_dep_graph) ==
    [truncated |-> FALSE, processed_files |-> ListOfSet(processed_files),
     symbols |-> ListOfSet(symbols), file_dep_graph |-> file_dep_graph]

LoadNoProcessed(file) ==
    [raised |-> file.truncated,
     processed_files |-> {},
     symbols |-> Range(file.symbols),
     file_dep_graph |-> file.file_dep_graph]

LoadNoSymbols(file) ==
    [raised |-> file.truncated,
     processed_files |-> Range(file.processed_files),
     symbols |-> {},
     file_dep_graph |-> file.file_dep_graph]

\* load_progress, lines 124-128: json.load raises on a file that holds no JSON
\* document.
LoadProgress(file) ==
    [raised |-> file.truncated,
     processed_files |-> Range(file.processed_files),
     symbols |-> Range(file.symbols),
     file_dep_graph |-> file.file_dep_graph]

\* ------------------------------------------------------------------------
\* State.
VARIABLES
    cache,           \* the cache store: a set of [dir, key, data]
    askLog,          \* history: the last two direct calls of LLM.ask, latest last
    svcLog,          \* history: the requests the service answered, with its answers
    nAsks,           \* number of direct calls of LLM.ask so far
    disk,            \* the progress file: None or its content
    pc,              \* where the process of main.py is
    file_dep_graph,  \* Processor.file_dep_graph
    processed_files, \* Processor.processed_files
    symbols,         \* Processor.symbols
    stack,           \* the active calls of process_file: [file, i], i dependencies done
    next,            \* process(): index of the next key of file_dep_graph
    file_refs,       \* build_callgraph: the dict file_refs while it is built
    runCalls,        \* history: invocations of the service by this process
    failure,         \* history: the exception that ended this process
    lastCommitted,   \* history: the progress file as the last completed save left it
    resumedFrom,     \* history: the progress file a process found after a finished run
    genLog,          \* history: the calls of generate_java_code by this process
    working_dir,     \* the files of the working directory, as os.walk lists them
    builtFrom,       \* history: file_refs of the build_callgraph of this process
    returned         \* history: unit -> symbols its last completed transformation gave

askVars == <<askLog, svcLog, nAsks>>
envVars == <<askVars, working_dir>>
memVars == <<file_dep_graph, processed_files, symbols, stack, next, file_refs>>
histVars == <<runCalls, failure, lastCommitted, resumedFrom, genLog, builtFrom,
              returned>>
procVars == <<disk, pc, memVars, histVars>>
vars == <<cache, askVars, working_dir, procVars>>

NoFailure == [at |-> "", unit |-> ""]

\* The state before the first process starts on a working directory.
InitIn(directory) ==
    /\ cache = {}
    /\ askLog = <<>>
    /\ svcLog = {}
    /\ nAsks = 0
    /\ disk = <<>>
    /\ pc = "off"
    /\ file_dep_graph = <<>>
    /\ processed_files = {}
    /\ symbols = {}
    /\ stack = <<>>
    /\ next = 1
    /\ file_refs = <<>>
    /\ runCalls = 0
    /\ failure = NoFailure
    /\ lastCommitted = <<>>
    /\ resumedFrom = <<>>
    /\ genLog = <<>>
    /\ working_dir = directory
    /\ builtFrom = <<>>
    /\ returned = {}

Init == \E directory \in WorkingDirs : InitIn(directory)

\* ------------------------------------------------------------------------
\* Direct callers of LLM.ask: requests, cache directories and service answers.
TurnQ == DictMsg(<< <<"role", <<"user">> >>, <<"content", <<"q">> >> >>)
TurnQSwapped == DictMsg(<< <<"content", <<"q">> >>, <<"role", <<"user">> >> >>)
TurnQStr == StrMsg(<<"q">>)
TurnP == DictMsg(<< <<"role", <<"user">> >>, <<"content", <<"p">> >> >>)

AskRequests ==
    {Request(h, DefaultModel, DefaultMaxTokens, FALSE) :
        h \in {<<TurnQ>>, <<TurnQStr>>, <<TurnP, TurnQ>>, <<TurnP, TurnQSwapped>>,
               <<TurnQ, TurnP>>}}
    \cup {Request(<<TurnQ>>, "gpt-4", DefaultMaxTokens, FALSE),
          Request(<<TurnQ>>, DefaultModel, DefaultMaxTokens \div 2, FALSE),
          Request(<<TurnQ>>, DefaultModel, DefaultMaxTokens, TRUE)}

\* The calls made: every request in cached mode on the default cache_dir, and
\* one request also without the cache and on another cache_dir.
AskInputs ==
    {[req |-> r, cached_mode |-> TRUE, cache_dir |-> DefaultCacheDir] : r \in AskRequests}
    \cup {[req |-> Request(<<TurnQ>>, DefaultModel, DefaultMaxTokens, FALSE),
           cached_mode |-> FALSE, cache_dir |-> DefaultCacheDir],
          [req |-> Request(<<TurnQ>>, DefaultModel, DefaultMaxTokens, FALSE),
           cached_mode |-> TRUE, cache_dir |-> "alt"]}

AskTexts == {<<>>, <<"x", CR, LF>>, <<"x", LF>>}

Push2(log, rec) == IF log = <<>> THEN <<rec>> ELSE <<log[Len(log)], rec>>

\* One call llm.ask(req.chat_history, req.model, req.max_tokens, req.json_mode,
\* cached_mode, cache_dir) by a caller of the module.
AskCall(req, cached_mode, cache_dir, svc) ==
    LET r == Ask(cache, req, cached_mode, cache_dir, svc)
    IN  /\ nAsks < MaxAsks
        /\ UNCHANGED <<procVars, working_dir>>
        /\ nAsks' = nAsks + 1
        /\ cache' = r.cache
        /\ svcLog' = IF r.invoked /\ svc.kind = "content"
                     THEN svcLog \cup {[messages |-> History(req.chat_history),
                                        model |-> req.model,
                                        max_tokens |-> req.max_tokens,
                                        json_mode |-> req.json_mode,
                                        content |-> svc.content]}
                     ELSE svcLog
        /\ askLog' = Push2(askLog,
                           [req |-> req, cached_mode |-> cached_mode,
                            cache_dir |-> cache_dir, raised |-> r.raised,
                            content |-> r.content, invoked |-> r.invoked,
                            key |-> r.key, changed |-> r.cache # cache])

AskStep ==
    \E call \in AskInputs, svc \in Outcomes(AskTexts) :
        AskCall(call.req, call.cached_mode, call.cache_dir, svc)

NextAsk == AskStep

\* Callers of LLM.ask alone, on an empty cache store and with no unit at hand.
InitAsk == InitIn(<<>>)

SpecAsk == InitAsk /\ [][NextAsk]_vars

\* ------------------------------------------------------------------------
\* The process `python main.py --working-dir D`: Processor(D), then process().
MaxDepth == 4

ExtractTexts ==
    {<<"{", "pkgA", "}">>,
     <<"{", "depA", "depX", "pkgB", "}">>,
     <<"{", "depB", "depA", "pkgA", CR, LF, "}">>,
     <<"{", "depB", "pkgX", "}">>,
     <<"x">>,
     <<>>}

TransformTexts ==
    {<<"{", "java_code", "symbols", "e1", "}">>,
     <<"{", "java_code", "symbols", "e2", CR, LF, "}">>,
     <<"{", "java_code", "symbols", "e1", "eNoJava", "}">>,
     <<"{", "java_code", "}">>,
     <<>>}

Stopped == pc \in {"off", "failed", "done"}

CommittedUnits ==
    IF lastCommitted = <<>> THEN {} ELSE Range(lastCommitted[1].processed_files)

\* What is known of the transformations whose unit a completed save recorded.
CommittedReturns == {r \in returned : r.unit \in CommittedUnits}

EmptyProgress ==
    [raised |-> FALSE, processed_files |-> {}, symbols |-> {}, file_dep_graph |-> <<>>]

\* __init__, lines 73-78: the fields after load_progress, if there is a file.
Loaded == IF disk = <<>> THEN EmptyProgress ELSE LoadProgress(disk[1])

Begin(loaded) ==
    /\ processed_files' = loaded.processed_files
    /\ symbols' = loaded.symbols
    /\ file_dep_graph' = loaded.file_dep_graph
    /\ stack' = <<>>
    /\ next' = 1
    /\ file_refs' = <<>>
    /\ runCalls' = 0
    /\ genLog' = <<>>
    /\ builtFrom' = <<>>
    /\ returned' = CommittedReturns
    /\ resumedFrom' = IF pc = "done" THEN disk ELSE <<>>
    /\ UNCHANGED <<cache, disk, lastCommitted, envVars>>

\* A start on a progress file that json.load cannot read.
StartLoadFails ==
    /\ Stopped
    /\ Loaded.raised
    /\ Begin(EmptyProgress)
    /\ pc' = "failed"
    /\ failure' = [at |-> "load", unit |-> ""]

\* A start on a progress file with a graph: build_callgraph is not called.
StartLoaded ==
    /\ Stopped
    /\ ~Loaded.raised
    /\ Len(Loaded.file_dep_graph) # 0
    /\ Begin(Loaded)
    /\ pc' = "loop"
    /\ failure' = NoFailure

\* A start without a graph: build_callgraph is called.
StartBuild ==
    /\ Stopped
    /\ ~Loaded.raised
    /\ Len(Loaded.file_dep_graph) = 0
    /\ Begin(Loaded)
    /\ pc' = "build"
    /\ failure' = NoFailure

\* The outcomes of the service to consider for a prompt: one is enough when ask
\* answers from the cache.
Service(prompt, texts) ==
    IF AskJson(cache, prompt, SvcRaise).invoked THEN Outcomes(texts) ELSE {SvcRaise}

\* build_callgraph, lines 92-96: parse_refs of the next file of the scan.
BuildParse ==
    /\ pc = "build"
    /\ Len(file_refs) < Len(ScanSqlFiles(working_dir))
    /\ LET sql_file == ScanSqlFiles(working_dir)[Len(file_refs) + 1]
           code == ReadCode(sql_file)
       IN  \E svc \in Service(PromptParseRefs(code), ExtractTexts) :
            LET refs == ParseRefs(cache, code, svc)
            IN  /\ cache' = refs.cache
                /\ runCalls' = runCalls + (IF refs.invoked THEN 1 ELSE 0)
                /\ IF refs.raised
                   THEN /\ pc' = "failed"
                        /\ failure' = [at |-> "build", unit |-> Basename(sql_file)]
                        /\ UNCHANGED file_refs
                   ELSE /\ file_refs' =
                             DictSet(file_refs, sql_file,
                                     [package_name |-> refs.package_name,
                                      deps |-> refs.deps])
                        /\ UNCHANGED <<pc, failure>>
    /\ UNCHANGED <<envVars, disk, file_dep_graph, processed_files, symbols, stack,
                   next, lastCommitted, resumedFrom, genLog, builtFrom, returned>>

\* build_callgraph, lines 98-120, and the end of __init__.
BuildGraph ==
    /\ pc = "build"
    /\ Len(file_refs) = Len(ScanSqlFiles(working_dir))
    /\ file_dep_graph' \in BuildCallgraphs(file_refs)
    /\ file_refs' = <<>>
    /\ builtFrom' = file_refs
    /\ pc' = "loop"
    /\ UNCHANGED <<cache, envVars, disk, processed_files, symbols, stack, next,
                   runCalls, failure, lastCommitted, resumedFrom, genLog, returned>>

Top == stack[Len(stack)]

NeverProcessed(processed, filename) == FALSE

InProgressGuard(processed, filename) ==
    \/ filename \in processed
    \/ \E i \in 1..(Len(stack) - 1) : stack[i].file = filename

\* `filename in self.processed_files` (line 144)
AlreadyProcessed(processed, filename) == filename \in processed

NoDependencies(graph, filename) == <<>>

\* self.file_dep_graph.get(filename, []) (line 147)
Dependencies(graph, filename) == DictGet(graph, filename, <<>>)

Return ==
    /\ stack' = SubSeq(stack, 1, Len(stack) - 1)
    /\ pc' = IF Len(stack) = 1 THEN "loop" ELSE "deps"

\* process(): the next key of file_dep_graph, or the end of the loop.
ProcessNext ==
    /\ pc = "loop"
    /\ IF next <= Len(file_dep_graph)
       THEN /\ stack' = <<[file |-> file_dep_graph[next].key, i |-> 0]>>
            /\ next' = next + 1
            /\ pc' = "call"
       ELSE /\ pc' = "done"
            /\ UNCHANGED <<stack, next>>
    /\ UNCHANGED <<cache, envVars, disk, file_dep_graph, processed_files, symbols,
                   file_refs, histVars>>

\* process_file, lines 144-146.
Skip ==
    /\ pc = "call"
    /\ AlreadyProcessed(processed_files, Top.file)
    /\ Return
    /\ UNCHANGED <<cache, envVars, disk, file_dep_graph, processed_files, symbols,
                   next, file_refs, histVars>>

InBody ==
    \/ pc = "deps"
    \/ pc = "call" /\ ~AlreadyProcessed(processed_files, Top.file)

\* process_file, lines 147-148: the call for the next dependency, which Python
\* refuses with RecursionError when the stack is full.
Recurse ==
    /\ InBody
    /\ Top.i < Len(Dependencies(file_dep_graph, Top.file))
    /\ IF Len(stack) < MaxDepth
       THEN /\ stack' = [stack EXCEPT ![Len(stack)].i = @ + 1]
                        \o <<[file |-> Dependencies(file_dep_graph, Top.file)[Top.i + 1],
                              i |-> 0]>>
            /\ pc' = "call"
            /\ UNCHANGED failure
       ELSE /\ pc' = "failed"
            /\ failure' = [at |-> "recursion", unit |-> Top.file]
            /\ UNCHANGED stack
    /\ UNCHANGED <<cache, envVars, disk, file_dep_graph, processed_files, symbols,
                   next, file_refs, runCalls, lastCommitted, resumedFrom, genLog,
                   builtFrom, returned>>

\* process_file, lines 149-151: the loop over the dependencies is over and
\* open(os.path.join(self.working_dir, filename)) finds the unit, or raises
\* FileNotFoundError.
BeginTransform ==
    /\ InBody
    /\ Top.i = Len(Dependencies(file_dep_graph, Top.file))
    /\ IF FileExists(working_dir, JoinWorkingDir(Top.file))
       THEN /\ pc' = "gen"
            /\ UNCHANGED failure
       ELSE /\ pc' = "failed"
            /\ failure' = [at |-> "open", unit |-> Top.file]
    /\ UNCHANGED <<cache, envVars, disk, memVars, runCalls, lastCommitted,
                   resumedFrom, genLog, builtFrom, returned>>

\* f"{symbol['oracle']} -> {symbol['java']}" (line 159)
SymbolKey(entry) == <<entry.oracle, " -> ", entry.java>>

OnlySymbol(set, key) == {key}

\* self.symbols.add(key) (line 160)
AddSymbol(set, key) == set \cup {key}

RECURSIVE AddSymbols(_, _)
\* Lines 158-160: the loop over new_symbols, which a symbol without "java" ends
\* with KeyError after the symbols before it were added.
AddSymbols(set, new_symbols) ==
    IF new_symbols = <<>> THEN [symbols |-> set, raised |-> FALSE]
    ELSE IF ~SymbolEntries[Head(new_symbols)].hasJava
         THEN [symbols |-> set, raised |-> TRUE]
         ELSE AddSymbols(AddSymbol(set, SymbolKey(SymbolEntries[Head(new_symbols)])),
                         Tail(new_symbols))

MarkedBeforeGenerate(set, processed, filename, gen) ==
    IF gen.raised
    THEN [symbols |-> set, processed_files |-> processed \cup {filename},
          raised |-> TRUE]
    ELSE [symbols |-> AddSymbols(set, gen.symbols).symbols,
          processed_files |-> processed \cup {filename},
          raised |-> AddSymbols(set, gen.symbols).raised]

\* process_file, lines 152-161, after generate_java_code gave `gen`: the fields
\* when the statements end, normally or with an exception.
TransformResult(set, processed, filename, gen) ==
    IF gen.raised
    THEN [symbols |-> set, processed_files |-> processed, raised |-> TRUE]
    ELSE IF AddSymbols(set, gen.symbols).raised
    THEN [symbols |-> AddSymbols(set, gen.symbols).symbols,
          processed_files |-> processed, raised |-> TRUE]
    ELSE [symbols |-> AddSymbols(set, gen.symbols).symbols,
          processed_files |-> processed \cup {filename}, raised |-> FALSE]

\* The symbol mappings a response lists.
ReturnedSymbols(new_symbols) ==
    {SymbolKey(SymbolEntries[new_symbols[i]]) : i \in 1..Len(new_symbols)}

\* The cache key of the request generate_java_code builds.
TransformKey(code, symbol_order) ==
    GenerateCacheKey(<<SystemMsg(PromptProcessFile(symbol_order, code))>>,
                     DefaultModel, DefaultMaxTokens, TRUE)

\* The response is one that generate_java_code and the merge of its symbols
\* accept.
WellFormedTransform(text) ==
    /\ JsonLoads(text).ok
    /\ HasKey(JsonLoads(text), "java_code")
    /\ HasKey(JsonLoads(text), "symbols")
    /\ ~AddSymbols({}, SelectSeq(JsonLoads(text).members, IsSymbolEntry)).raised

\* The cache store holds a well-formed answer to a transformation request built
\* from this unit source and this set of symbols.
CachedTransform(code, predefined_symbols) ==
    \E symbol_order \in Orderings(predefined_symbols) :
        LET cached == LoadFromCache(cache, TransformKey(code, symbol_order),
                                    DefaultCacheDir)
        IN  CacheHit(cached) /\ WellFormedTransform(cached[1])

\* process_file, lines 152-161: generate_java_code on the unit with the symbols
\* known so far, iterated in some order, and the merge of what it returns.
Generate ==
    /\ pc = "gen"
    /\ \E symbol_order \in Orderings(symbols) :
       \E svc \in Service(PromptProcessFile(symbol_order,
                                            ReadCode(JoinWorkingDir(Top.file))),
                          TransformTexts) :
        LET code == ReadCode(JoinWorkingDir(Top.file))
            gen == GenerateJavaCode(cache, code, symbol_order, svc)
            res == TransformResult(symbols, processed_files, Top.file, gen)
        IN  /\ cache' = gen.cache
            /\ runCalls' = runCalls + (IF gen.invoked THEN 1 ELSE 0)
            /\ genLog' = Append(genLog, [unit |-> Top.file,
                                         committed |-> Top.file \in CommittedUnits,
                                         context |-> Range(symbol_order),
                                         processed |-> processed_files,
                                         answered |-> CachedTransform(code, symbols),
                                         invoked |-> gen.invoked])
            /\ returned' = IF res.raised THEN returned
                           ELSE {r \in returned : r.unit # Top.file}
                                \cup {[unit |-> Top.file,
                                       symbols |-> ReturnedSymbols(gen.symbols)]}
            /\ symbols' = res.symbols
            /\ processed_files' = res.processed_files
            /\ IF res.raised
               THEN /\ pc' = "failed"
                    /\ failure' = [at |-> "transform", unit |-> Top.file]
               ELSE /\ pc' = "save"
                    /\ UNCHANGED failure
    /\ UNCHANGED <<envVars, disk, file_dep_graph, stack, next, file_refs,
                   lastCommitted, resumedFrom, builtFrom>>

\* save_progress, line 135: open(self.progress_file, 'w') empties the file.
SaveOpen ==
    /\ pc = "save"
    /\ disk' = <<TruncatedFile>>
    /\ pc' = "write"
    /\ UNCHANGED <<cache, envVars, memVars, histVars>>

\* save_progress, lines 136-141, and the return of process_file.
SaveWrite ==
    /\ pc = "write"
    /\ disk' = <<ProgressData(processed_files, symbols, file_dep_graph)>>
    /\ lastCommitted' = disk'
    /\ Return
    /\ UNCHANGED <<cache, envVars, file_dep_graph, processed_files, symbols, next,
                   file_refs, runCalls, failure, resumedFrom, genLog, builtFrom,
                   returned>>

\* The process is killed: its memory is gone, the files stay as they are.
Crash ==
    /\ ~Stopped
    /\ pc' = "off"
    /\ file_dep_graph' = <<>>
    /\ processed_files' = {}
    /\ symbols' = {}
    /\ stack' = <<>>
    /\ next' = 1
    /\ file_refs' = <<>>
    /\ runCalls' = 0
    /\ failure' = NoFailure
    /\ resumedFrom' = <<>>
    /\ genLog' = <<>>
    /\ builtFrom' = <<>>
    /\ returned' = CommittedReturns
    /\ UNCHANGED <<cache, envVars, disk, lastCommitted>>

Next ==
    \/ StartLoadFails
    \/ StartLoaded
    \/ StartBuild
    \/ BuildParse
    \/ BuildGraph
    \/ ProcessNext
    \/ Skip
    \/ Recurse
    \/ BeginTransform
    \/ Generate
    \/ SaveOpen
    \/ SaveWrite
    \/ Crash

\* Runs of main.py on one working directory, killed and started again at will.
Spec == Init /\ [][Next]_vars

\* ------------------------------------------------------------------------
\* Properties of LLM.ask.
LastAsk == askLog[Len(askLog)]
PrevAsk == askLog[1]

\* Same turns as the service sees them: the same fields with the same values,
\* whatever the order in which a turn's fields were inserted.
SameTurn(m1, m2) ==
    /\ m1.isStr = m2.isStr
    /\ {m1.fields[i] : i \in 1..Len(m1.fields)} = {m2.fields[i] : i \in 1..Len(m2.fields)}

SameTurns(h1, h2) ==
    /\ Len(h1) = Len(h2)
    /\ \A i \in 1..Len(h1) : SameTurn(h1[i], h2[i])

SameRequest(r1, r2) ==
    /\ SameTurns(r1.chat_history, r2.chat_history)
    /\ r1.model = r2.model
    /\ r1.max_tokens = r2.max_tokens
    /\ r1.json_mode = r2.json_mode

\* C2: two successive cached-mode calls with an identical request and cache_dir,
\* the first of which returned a content: the service is invoked at most once in
\* total and the second call returns exactly the content of the first.
C2_AtMostOnce ==
    (/\ Len(askLog) = 2
     /\ PrevAsk.cached_mode /\ LastAsk.cached_mode
     /\ PrevAsk.req = LastAsk.req
     /\ PrevAsk.cache_dir = LastAsk.cache_dir
     /\ ~PrevAsk.raised)
    => (/\ ~(PrevAsk.invoked /\ LastAsk.invoked)
        /\ ~LastAsk.raised
        /\ LastAsk.content = PrevAsk.content)

\* C6: a content returned by a cached-mode call is the content the service gave
\* in some invocation (this one included) for a request with the same turns,
\* model, max_tokens and json_mode.
C6_CacheSound ==
    (/\ Len(askLog) >= 1
     /\ LastAsk.cached_mode
     /\ ~LastAsk.raised)
    => \E inv \in svcLog :
        /\ SameTurns(inv.messages, History(LastAsk.req.chat_history))
        /\ inv.model = LastAsk.req.model
        /\ inv.max_tokens = LastAsk.req.max_tokens
        /\ inv.json_mode = LastAsk.req.json_mode
        /\ inv.content = LastAsk.content

\* C7: two requests with the same ordered turns, model, max_tokens and json_mode,
\* whatever the order of the fields of their turns, get the same cache key.
C7_KeyDeterminism ==
    (Len(askLog) = 2 /\ SameRequest(PrevAsk.req, LastAsk.req))
    => PrevAsk.key = LastAsk.key

C7_Witness ==
    /\ Len(askLog) = 2
    /\ SameRequest(PrevAsk.req, LastAsk.req)
    /\ PrevAsk.req # LastAsk.req
    /\ Len(LastAsk.req.chat_history) = 2
    /\ PrevAsk.key = LastAsk.key

\* C9: a cached-mode call that ends in an exception after invoking the service
\* has left the cache store as it was, and no file, empty or not, exists under
\* the key of its request.
C9_FailedNotCached ==
    (/\ Len(askLog) >= 1
     /\ LastAsk.cached_mode
     /\ LastAsk.raised)
    => (/\ LastAsk.invoked
        /\ ~LastAsk.changed
        /\ CacheFiles(cache, LastAsk.key, LastAsk.cache_dir) = {})

\* ------------------------------------------------------------------------
\* Properties of the process.
\* The units the graph in memory gives as dependencies of a unit.
EdgesOf(unit) ==
    UNION {Range(file_dep_graph[i].value) :
              i \in {j \in 1..Len(file_dep_graph) : file_dep_graph[j].key = unit}}

CommittedSymbols ==
    IF lastCommitted = <<>> THEN {} ELSE Range(lastCommitted[1].symbols)

\* C1: when generate_java_code is about to be called for a unit, every unit it
\* has a dependency edge to is in the processed set.
C1_DependencyOrder ==
    pc = "gen" => \A d \in EdgesOf(Top.file) : d \in processed_files

C1_Witness ==
    /\ pc = "gen"
    /\ Cardinality(EdgesOf(Top.file)) = 2
    /\ CommittedUnits # {}
    /\ Len(genLog) = 0

\* C3: a process started after a run that finished invokes the service for no
\* extraction and no transformation, and the progress file stays as it found it.
C3_IdempotentResume ==
    resumedFrom # <<>> =>
        /\ runCalls = 0
        /\ genLog = <<>>
        /\ pc # "build"
        /\ disk = resumedFrom

C3_Witness ==
    /\ resumedFrom # <<>>
    /\ pc = "done"
    /\ Cardinality(processed_files) = Len(ScanSqlFiles(working_dir))

\* C4: no process calls generate_java_code for a unit that a completed save has
\* recorded as processed, nor twice for the same unit.
C4_NeverRedone ==
    \A i \in 1..Len(genLog) :
        /\ ~genLog[i].committed
        /\ \A j \in 1..Len(genLog) : j # i => genLog[j].unit # genLog[i].unit

C4_Witness ==
    /\ pc = "done"
    /\ Len(genLog) = 1
    /\ Cardinality(CommittedUnits) = Len(ScanSqlFiles(working_dir))
    /\ \E i \in 1..Len(file_dep_graph) : Len(file_dep_graph[i].value) = 2

\* C5: whenever the process has been killed after some save completed, the
\* progress file is what the last completed save wrote, so that the next start
\* loads the last committed record.
C5_CrashSafe ==
    (pc = "off" /\ lastCommitted # <<>>) => disk = lastCommitted

\* C8: when process_file ends with an exception of the transformation, the unit
\* is not in the processed set, in memory or in the file, and the file is what
\* the last completed save wrote.
C8_FailureIsolation ==
    (pc = "failed" /\ failure.at = "transform") =>
        /\ failure.unit \notin processed_files
        /\ failure.unit \notin CommittedUnits
        /\ disk = lastCommitted

C8_Witness ==
    /\ pc = "failed"
    /\ failure.at = "transform"
    /\ genLog[Len(genLog)].unit = failure.unit
    /\ CommittedUnits # {}
    /\ symbols # CommittedSymbols

\* C10: no step removes a symbol: a completed save records every symbol the
\* save before it recorded, a running process keeps every symbol it has, and a
\* started process has every symbol recorded.
C10_SymbolsGrow ==
    [][/\ CommittedSymbols \subseteq CommittedSymbols'
       /\ (~Stopped /\ pc' # "off") => symbols \subseteq symbols'
       /\ (Stopped /\ pc' \in {"loop", "build"}) => CommittedSymbols \subseteq symbols'
      ]_vars

C10_Witness ==
    /\ Cardinality(CommittedSymbols) = 2
    /\ symbols = CommittedSymbols
    /\ pc = "loop"
    /\ next = 1
    /\ genLog = <<>>

\* ------------------------------------------------------------------------
\* Properties of build_callgraph, stated on the extraction results it used.
Keys(graph) == {graph[i].key : i \in 1..Len(graph)}

Declares(refs, package) ==
    \E j \in 1..Len(refs.package_name) : refs.package_name[j] = <<package>>

\* The units of the scan that declare a package, by their place in the scan.
Declarers(refs_by_file, package) ==
    {i \in 1..Len(refs_by_file) : Declares(refs_by_file[i].value, package)}

\* The name of the unit that declares the package last in scan order.
LastDeclarer(refs_by_file, package) ==
    Basename(refs_by_file[CHOOSE i \in Declarers(refs_by_file, package) :
                             \A k \in Declarers(refs_by_file, package) : k <= i].key)

\* The package of the j-th reference "pkg.symbol" of a unit.
RefPackage(refs, j) == refs.deps[j][1]

\* Some reference of the unit has a package that resolves to the unit `name`.
RefersTo(refs_by_file, i, name) ==
    \E j \in 1..Len(refs_by_file[i].value.deps) :
        /\ Declarers(refs_by_file, RefPackage(refs_by_file[i].value, j)) # {}
        /\ LastDeclarer(refs_by_file, RefPackage(refs_by_file[i].value, j)) = name

\* C11: no unit is in its own dependency list, in the graph build_callgraph
\* returned or in the graph loaded from the progress file.
C11_NoSelfEdge ==
    \A i \in 1..Len(file_dep_graph) :
        file_dep_graph[i].key \notin Range(file_dep_graph[i].value)

C11_Witness ==
    /\ builtFrom # <<>>
    /\ \E i \in 1..Len(builtFrom) :
        /\ RefersTo(builtFrom, i, Basename(builtFrom[i].key))
        /\ \E j \in 1..Len(builtFrom[i].value.deps) :
              Declares(builtFrom[i].value, RefPackage(builtFrom[i].value, j))
        /\ DictGet(file_dep_graph, Basename(builtFrom[i].key), <<>>) # <<>>

\* The graph in the progress file, empty when there is no file.
PersistedGraph == IF disk = <<>> THEN <<>> ELSE disk[1].file_dep_graph

\* C12: build_callgraph runs only in a process that found no persisted graph;
\* a process that has computed a graph and has ended, normally or with an
\* exception, leaves it in the progress file; a process that loaded a graph
\* works on the persisted graph, and a completed save leaves it in the file.
C12_GraphBuiltOnce ==
    /\ pc = "build" => PersistedGraph = <<>>
    /\ (pc \in {"done", "failed"} /\ file_dep_graph # <<>>)
           => PersistedGraph = file_dep_graph
    /\ (pc \in {"loop", "call", "deps", "gen", "save"} /\ builtFrom = <<>>)
           => PersistedGraph = file_dep_graph

\* The entry of the graph for the i-th unit of the scan.
EntryOf(i) == Range(DictGet(file_dep_graph, Basename(builtFrom[i].key), <<>>))

Names == {Basename(builtFrom[i].key) : i \in 1..Len(builtFrom)}

\* C13: in the graph build_callgraph returned, a unit U has an edge to V exactly
\* when some reference of U has a package that resolves to V and V is not U; a
\* reference to a package no unit declares adds no edge.
C13_EdgeResolution ==
    builtFrom # <<>> =>
        \A i \in 1..Len(builtFrom) :
            \A name \in Names \cup EntryOf(i) :
                name \in EntryOf(i)
                    <=> (RefersTo(builtFrom, i, name) /\ name # Basename(builtFrom[i].key))

\* C14: the graph build_callgraph returned has one entry for every unit of the
\* scan, every edge target is a key, and no dependency list has a duplicate.
C14_GraphCoverage ==
    builtFrom # <<>> =>
        /\ Len(file_dep_graph) = Len(ScanSqlFiles(working_dir))
        /\ \A i \in 1..Len(ScanSqlFiles(working_dir)) :
              HasItem(file_dep_graph, Basename(ScanSqlFiles(working_dir)[i]))
        /\ \A i \in 1..Len(file_dep_graph) :
              /\ Range(file_dep_graph[i].value) \subseteq Keys(file_dep_graph)
              /\ \A j, k \in 1..Len(file_dep_graph[i].value) :
                    j # k => file_dep_graph[i].value[j] # file_dep_graph[i].value[k]

\* The packages that two or more units of the scan declare.
SharedPackages ==
    {p \in {"PKG_A", "PKG_B", "PKG_X"} : Cardinality(Declarers(builtFrom, p)) >= 2}

\* C15: when two units declare a package, build_callgraph ends without error,
\* the package resolves to the unit that declares it last in scan order, and
\* every edge of the graph goes to the last declarer of a package referenced.
C15_LastWriteWins ==
    builtFrom # <<>> =>
        /\ \A p \in SharedPackages :
              DictGet(PackageToFile(builtFrom), <<p>>, "") = LastDeclarer(builtFrom, p)
        /\ \A k \in 1..Len(file_dep_graph) :
              \A name \in Range(file_dep_graph[k].value) :
                  \E i \in 1..Len(builtFrom) :
                      /\ Basename(builtFrom[i].key) = file_dep_graph[k].key
                      /\ RefersTo(builtFrom, i, name)

C15_Witness ==
    /\ builtFrom # <<>>
    /\ Len(file_dep_graph) = Len(builtFrom)
    /\ \E p \in SharedPackages :
          \E i \in 1..Len(builtFrom) :
              /\ ~Declares(builtFrom[i].value, p)
              /\ \E j \in 1..Len(builtFrom[i].value.deps) :
                    RefPackage(builtFrom[i].value, j) = p
              /\ LastDeclarer(builtFrom, p) \in EntryOf(i)
              /\ \E d \in Declarers(builtFrom, p) :
                    Basename(builtFrom[d].key) \notin EntryOf(i)

\* ------------------------------------------------------------------------
\* Properties of process() on the shape of the graph.
Succ(graph, unit) == Range(DictGet(graph, unit, <<>>))

RECURSIVE ReachFrom(_, _, _)
ReachFrom(graph, units, n) ==
    IF n = 0 THEN units
    ELSE ReachFrom(graph, units \cup UNION {Succ(graph, u) : u \in units}, n - 1)

\* The units a unit reaches over one or more edges.
Reach(graph, unit) == ReachFrom(graph, Succ(graph, unit), Len(graph))

OnCycle(graph, unit) == unit \in Reach(graph, unit)

Acyclic(graph) == \A unit \in Keys(graph) : ~OnCycle(graph, unit)

\* C16: on an acyclic graph process() ends with an exception only when a
\* response of the service to a transformation request was not well-formed, and
\* when it ends normally every key of the graph is in the processed set and the
\* progress file holds the record in memory.
C16_AcyclicCompletes ==
    /\ (pc = "failed" /\ file_dep_graph # <<>> /\ Acyclic(file_dep_graph))
           => failure.at = "transform"
    /\ pc = "done" =>
           /\ Acyclic(file_dep_graph)
           /\ processed_files = Keys(file_dep_graph)
           /\ disk # <<>>
           /\ ~LoadProgress(disk[1]).raised
           /\ LoadProgress(disk[1]).processed_files = processed_files
           /\ LoadProgress(disk[1]).symbols = symbols
           /\ LoadProgress(disk[1]).file_dep_graph = file_dep_graph

\* A unit that lies on a cycle of the graph or reaches one.
ReachesCycle(graph, unit) ==
    \/ OnCycle(graph, unit)
    \/ \E v \in Reach(graph, unit) : OnCycle(graph, v)

\* The call of process_file made by process() that is active, if any.
OuterCallReachesCycle ==
    stack # <<>> /\ ReachesCycle(file_dep_graph, stack[1].file)

\* C17: no unit of a cycle is transformed or enters the processed set, no call
\* of process_file for a unit that lies on a cycle or reaches one returns, and
\* while process() is in such a call the progress file does not change.
C17_NoCycleGuard ==
    /\ [](pc \in {"gen", "save", "write"} => ~OnCycle(file_dep_graph, Top.file))
    /\ [](\A u \in processed_files : ~OnCycle(file_dep_graph, u))
    /\ [][/\ (pc \in {"call", "write"} /\ pc' \in {"loop", "deps"})
              => ~ReachesCycle(file_dep_graph, Top.file)
          /\ OuterCallReachesCycle => disk' = disk]_vars

\* C17 as amended: the progress file changes during such a call, but only by
\* the saves of units that reach no cycle.
C17_CycleNeverProcessed ==
    /\ [](pc \in {"gen", "save", "write"} => ~ReachesCycle(file_dep_graph, Top.file))
    /\ [](\A u \in processed_files : ~ReachesCycle(file_dep_graph, u))
    /\ [][/\ (pc \in {"call", "write"} /\ pc' \in {"loop", "deps"})
              => ~ReachesCycle(file_dep_graph, Top.file)
          /\ disk' # disk
              => (pc \in {"save", "write"} /\ ~ReachesCycle(file_dep_graph, Top.file))
         ]_vars

C17_Witness ==
    /\ pc = "failed"
    /\ failure.at = "recursion"
    /\ OnCycle(file_dep_graph, failure.unit)
    /\ next = 2
    /\ OuterCallReachesCycle
    /\ Len(genLog) = 1
    /\ CommittedUnits = {genLog[1].unit}
    /\ processed_files = CommittedUnits

\* ------------------------------------------------------------------------
\* Properties of the symbol context and of the progress record.
\* C18: the symbols passed to generate_java_code for a unit contain the symbols
\* that the transformation of every unit processed at that moment returned, in
\* this process or in an earlier one, and every unit the unit reaches in the
\* graph is among those units.
C18_SymbolVisibility ==
    \A i \in 1..Len(genLog) :
        /\ \A r \in returned :
              r.unit \in genLog[i].processed => r.symbols \subseteq genLog[i].context
        /\ \A d \in Reach(file_dep_graph, genLog[i].unit) :
              /\ d \in genLog[i].processed
              /\ \E r \in returned : r.unit = d

C18_Witness ==
    /\ pc = "save"
    /\ Len(genLog) = 1
    /\ genLog[1].processed = CommittedUnits
    /\ Cardinality(genLog[1].context) = 2
    /\ \E d \in Reach(file_dep_graph, genLog[1].unit) :
          \E r \in returned : r.unit = d /\ r.symbols # {}

\* C19: the processed units of the progress file are keys of its graph, and
\* every unit a processed unit depends on in that graph is processed in it.
C19_DependencyClosed ==
    disk # <<>> =>
        \A u \in Range(disk[1].processed_files) :
            /\ u \in Keys(disk[1].file_dep_graph)
            /\ Succ(disk[1].file_dep_graph, u) \subseteq Range(disk[1].processed_files)

C19_Witness ==
    /\ disk # <<>>
    /\ pc = "off"
    /\ Range(disk[1].processed_files) # Keys(disk[1].file_dep_graph)
    /\ \E u \in Range(disk[1].processed_files) :
          /\ Succ(disk[1].file_dep_graph, u) # {}
          /\ \E v \in Keys(disk[1].file_dep_graph) :
                u \in Succ(disk[1].file_dep_graph, v)

\* C20: a call of generate_java_code for a unit source and a set of symbols for
\* which the cache store holds an answer does not invoke the service.
C20_DeterministicRequest ==
    \A i \in 1..Len(genLog) : genLog[i].answered => ~genLog[i].invoked

====
